---- MODULE Spec2Model ----
(***************************************************************************)
(* A model of the IBC pseudocode interpreter: the lexer (lexer.rs), the    *)
(* recursive-descent parser (parser.rs) and the tree-walking interpreter   *)
(* (interpreter.rs), driven as main.rs drives them.                        *)
(*                                                                         *)
(* Source text is a TLA+ string; a char is a string of length 1 and        *)
(* Option<char>::None is the empty string.  Integers are the i64 of the    *)
(* program restricted to the magnitudes the bounded inputs can produce     *)
(* (no literal or intermediate value of the explored programs comes near   *)
(* the i64 limits, so neither the debug-build overflow panic nor the       *)
(* release-build wrap-around is exercised).                                *)
(***************************************************************************)
EXTENDS Integers, Sequences, FiniteSets, TLC

VARIABLES
    source,        \* main.rs `input`: the program text
    lexer,         \* the Lexer struct: input, current_char, line, column
    returned,      \* the TokenInfo values get_next_token has returned so far
    ast,           \* the AstNode parser.parse() returned (NoAst before that)
    variables,     \* Interpreter.variables: HashMap<String, i64>
    in_condition,  \* Interpreter.in_condition
    output,        \* the lines println! has written to stdout
    frames,        \* the active calls of Interpreter::interpret, outermost first
    status,        \* "start" | "lexing" | "running" | "done" | "panicked"
    panic_msg,     \* the message of the panic that ended the process, or ""
    history        \* the <<name, value>> of every completed Assignment, in order

vars == <<source, lexer, returned, ast, variables, in_condition, output,
          frames, status, panic_msg, history>>

(***************************************************************************)
(* Characters                                                              *)
(***************************************************************************)
None == ""

Digits == {"0", "1", "2", "3", "4", "5", "6", "7", "8", "9"}

Letters ==
    {"a", "b", "c", "d", "e", "f", "g", "h", "i", "j", "k", "l", "m",
     "n", "o", "p", "q", "r", "s", "t", "u", "v", "w", "x", "y", "z",
     "A", "B", "C", "D", "E", "F", "G", "H", "I", "J", "K", "L", "M",
     "N", "O", "P", "Q", "R", "S", "T", "U", "V", "W", "X", "Y", "Z"}

is_digit(c) == c \in Digits

is_alphabetic(c) == c \in Letters

is_alphanumeric(c) == c \in Letters \cup Digits

DigitValue(c) ==
    CASE c = "0" -> 0 [] c = "1" -> 1 [] c = "2" -> 2 [] c = "3" -> 3
      [] c = "4" -> 4 [] c = "5" -> 5 [] c = "6" -> 6 [] c = "7" -> 7
      [] c = "8" -> 8 [] c = "9" -> 9

\* str::parse::<i64> on a non-empty run of decimal digits
RECURSIVE ParseDigits(_, _)
ParseDigits(s, acc) ==
    IF Len(s) = 0 THEN acc
    ELSE ParseDigits(Tail(s), acc * 10 + DigitValue(Head(s)))

(***************************************************************************)
(* Tokens                                                                  *)
(***************************************************************************)
Tok(type) == [type |-> type, text |-> "", value |-> 0]

TokIdentifier(name) == [type |-> "Identifier", text |-> name, value |-> 0]

TokNumber(n) == [type |-> "Number", text |-> "", value |-> n]

TokString(s) == [type |-> "String", text |-> s, value |-> 0]

Keyword(id) ==
    CASE id = "output"  -> Tok("Output")
      [] id = "if"      -> Tok("If")
      [] id = "then"    -> Tok("Then")
      [] id = "else"    -> Tok("Else")
      [] id = "endif"   -> Tok("EndIf")
      [] id = "loop"    -> Tok("Loop")
      [] id = "endloop" -> Tok("EndLoop")
      [] id = "while"   -> Tok("While")
      [] id = "and"     -> Tok("And")
      [] id = "or"      -> Tok("Or")
      [] id = "not"     -> Tok("Not")
      [] id = "mod"     -> Tok("Mod")
      [] id = "div"     -> Tok("Div")
      [] OTHER          -> TokIdentifier(id)

(***************************************************************************)
(* Lexer                                                                   *)
(***************************************************************************)
advance(L) ==
    LET moved == IF L.current_char # None
                 THEN IF L.current_char = "\n"
                      THEN [L EXCEPT !.line = @ + 1, !.column = 0]
                      ELSE [L EXCEPT !.column = @ + 1]
                 ELSE L
    IN  IF Len(L.input) = 0
        THEN [moved EXCEPT !.current_char = None]
        ELSE [moved EXCEPT !.current_char = Head(L.input), !.input = Tail(L.input)]

LexerNew(text) ==
    advance([input |-> text, current_char |-> None, line |-> 1, column |-> 0])

RECURSIVE identifier(_, _)
identifier(L, result) ==
    IF L.current_char # None /\ is_alphanumeric(L.current_char)
    THEN identifier(advance(L), result \o L.current_char)
    ELSE [lexer |-> L, result |-> result]

RECURSIVE number(_, _)
number(L, result) ==
    IF L.current_char # None /\ is_digit(L.current_char)
    THEN number(advance(L), result \o L.current_char)
    ELSE [lexer |-> L, result |-> ParseDigits(result, 0)]

\* string() as it would be if text without a closing quote were dropped
RECURSIVE string_body_closed(_, _)
string_body_closed(L, result) ==
    IF L.current_char = None THEN [lexer |-> L, result |-> ""]
    ELSE IF L.current_char = "\"" THEN [lexer |-> advance(L), result |-> result]
    ELSE string_body_closed(advance(L), result \o L.current_char)

RECURSIVE string_body(_, _)
string_body(L, result) ==
    IF L.current_char # None /\ L.current_char # "\""
    THEN string_body(advance(L), result \o L.current_char)
    ELSE [lexer |-> advance(L), result |-> result]

string(L) == string_body(advance(L), "")

Returned(L, token, msg) ==
    [lexer |-> L, info |-> [token |-> token, line |-> L.line, column |-> L.column],
     panic |-> msg]

TwoChar(L, withEq, without) ==
    LET L1 == advance(L)
    IN  IF L1.current_char = "="
        THEN Returned(advance(L1), Tok(withEq), "")
        ELSE IF without = "" THEN Returned(L1, Tok("Eof"), "Unexpected character")
             ELSE Returned(L1, Tok(without), "")

RECURSIVE get_next_token(_)
get_next_token(L) ==
    LET c == L.current_char
    IN  CASE c = None -> Returned(L, Tok("Eof"), "")
          [] c \in {" ", "\t", "\r", "\n"} -> get_next_token(advance(L))
          [] c = "=" -> Returned(advance(L), Tok("Assign"), "")
          [] c = "+" -> Returned(advance(L), Tok("Plus"), "")
          [] c = "-" -> Returned(advance(L), Tok("Minus"), "")
          [] c = "*" -> Returned(advance(L), Tok("Star"), "")
          [] c = "/" -> Returned(advance(L), Tok("Slash"), "")
          [] c = "(" -> Returned(advance(L), Tok("LParen"), "")
          [] c = ")" -> Returned(advance(L), Tok("RParen"), "")
          [] c = "," -> Returned(advance(L), Tok("Comma"), "")
          [] c = ">" -> TwoChar(L, "GreaterThanOrEqual", "GreaterThan")
          [] c = "<" -> TwoChar(L, "LessThanOrEqual", "LessThan")
          [] c = "!" -> TwoChar(L, "NotEqual", "")
          [] c = "\"" -> LET r == string(L)
                         IN  Returned(r.lexer, TokString(r.result), "")
          [] is_digit(c) -> LET r == number(L, "")
                            IN  Returned(r.lexer, TokNumber(r.result), "")
          [] is_alphabetic(c) -> LET r == identifier(L, "")
                                 IN  Returned(r.lexer, Keyword(r.result), "")
          [] OTHER -> Returned(L, Tok("Eof"), "Unexpected character")

(***************************************************************************)
(* AST                                                                     *)
(***************************************************************************)
NoAst == [kind |-> "None"]

Number(value) == [kind |-> "Number", value |-> value]

String(text) == [kind |-> "String", text |-> text]

Identifier(name) == [kind |-> "Identifier", name |-> name]

BinOp(left, op, right) == [kind |-> "BinOp", left |-> left, op |-> op, right |-> right]

Assignment(name, expr_node) == [kind |-> "Assignment", name |-> name, expr |-> expr_node]

Output(expr_node) == [kind |-> "Output", expr |-> expr_node]

If(condition, true_branch, false_branch) ==
    [kind |-> "If", condition |-> condition,
     true_branch |-> true_branch, false_branch |-> false_branch]

Loop(condition, body) == [kind |-> "Loop", condition |-> condition, body |-> body]

Program(statements) == [kind |-> "Program", statements |-> statements]

(***************************************************************************)
(* Parser.  Every routine takes the Parser struct and returns the struct   *)
(* after the call, the node (or nodes) built, and the panic message if the *)
(* call panicked ("" if it returned).                                      *)
(***************************************************************************)
Ok(P, node) == [parser |-> P, node |-> node, panic |-> ""]

Fail(P, msg) == [parser |-> P, node |-> NoAst, panic |-> msg]

Pulled(P, r) ==
    [parser |-> [P EXCEPT !.lexer = r.lexer, !.current_token_info = r.info],
     panic |-> r.panic]

ParserNew(L) ==
    Pulled([lexer |-> L, current_token_info |-> [token |-> Tok("Eof"), line |-> 0, column |-> 0],
            in_condition |-> FALSE],
           get_next_token(L))

eat(P, token) ==
    IF P.current_token_info.token = token
    THEN Pulled(P, get_next_token(P.lexer))
    ELSE [parser |-> P, panic |-> "Expected token"]

CurrentType(P) == P.current_token_info.token.type

RelationalOps ==
    {"Assign", "NotEqual", "GreaterThan", "GreaterThanOrEqual",
     "LessThan", "LessThanOrEqual", "And", "Or"}

AdditiveOps == {"Plus", "Minus"}

MultiplicativeOps == {"Star", "Slash", "Mod", "Div"}

\* `?`-like sequencing of the panics: when the step r panicked, the panic
\* unwinds through the caller; otherwise the caller goes on with `rest`
AndThen(r, rest(_)) == IF r.panic # "" THEN Fail(r.parser, r.panic) ELSE rest(r)

RECURSIVE expr(_)

factor(P) ==
    LET t == P.current_token_info.token
    IN  CASE t.type = "Number" ->
               AndThen(eat(P, t), LAMBDA e : Ok(e.parser, Number(t.value)))
          [] t.type = "String" ->
               AndThen(eat(P, t), LAMBDA e : Ok(e.parser, String(t.text)))
          [] t.type = "Identifier" ->
               AndThen(eat(P, t), LAMBDA e : Ok(e.parser, Identifier(t.text)))
          [] t.type = "LParen" ->
               AndThen(eat(P, Tok("LParen")), LAMBDA e :
               AndThen(expr(e.parser), LAMBDA r :
               AndThen(eat(r.parser, Tok("RParen")), LAMBDA e2 :
               Ok(e2.parser, r.node))))
          [] OTHER -> Fail(P, "Unexpected token")

RECURSIVE term_loop(_, _)
term_loop(P, node) ==
    IF CurrentType(P) \in MultiplicativeOps
    THEN AndThen(eat(P, P.current_token_info.token), LAMBDA e :
         AndThen(factor(e.parser), LAMBDA r :
         term_loop(r.parser, BinOp(node, P.current_token_info.token, r.node))))
    ELSE Ok(P, node)

term(P) == AndThen(factor(P), LAMBDA r : term_loop(r.parser, r.node))

\* expr() as it would be if the rest of the chain were parsed as the right
\* operand (right-associative)
expr_loop_right(P, node) ==
    IF CurrentType(P) \in AdditiveOps
    THEN AndThen(eat(P, P.current_token_info.token), LAMBDA e :
         AndThen(expr(e.parser), LAMBDA r :
         Ok(r.parser, BinOp(node, P.current_token_info.token, r.node))))
    ELSE Ok(P, node)

RECURSIVE expr_loop(_, _)
expr_loop(P, node) ==
    IF CurrentType(P) \in AdditiveOps
    THEN AndThen(eat(P, P.current_token_info.token), LAMBDA e :
         AndThen(term(e.parser), LAMBDA r :
         expr_loop(r.parser, BinOp(node, P.current_token_info.token, r.node))))
    ELSE Ok(P, node)

expr(P) == AndThen(term(P), LAMBDA r : expr_loop(r.parser, r.node))

RECURSIVE boolean_expr_loop(_, _)
boolean_expr_loop(P, node) ==
    IF CurrentType(P) \in RelationalOps
    THEN AndThen(eat(P, P.current_token_info.token), LAMBDA e :
         AndThen(expr(e.parser), LAMBDA r :
         boolean_expr_loop(r.parser, BinOp(node, P.current_token_info.token, r.node))))
    ELSE Ok(P, node)

boolean_expr(P) == AndThen(expr(P), LAMBDA r : boolean_expr_loop(r.parser, r.node))

assignment_statement(P) ==
    IF CurrentType(P) = "Identifier"
    THEN AndThen(eat(P, P.current_token_info.token), LAMBDA e :
         AndThen(eat(e.parser, Tok("Assign")), LAMBDA e2 :
         AndThen(expr(e2.parser), LAMBDA r :
         Ok(r.parser, Assignment(P.current_token_info.token.text, r.node)))))
    ELSE Fail(P, "Expected identifier")

output_statement(P) ==
    AndThen(eat(P, Tok("Output")), LAMBDA e :
    AndThen(expr(e.parser), LAMBDA r :
    Ok(r.parser, Output(r.node))))

\* `self.in_condition = true; let condition = self.boolean_expr();
\*  self.in_condition = false;`
condition(P) ==
    AndThen(boolean_expr([P EXCEPT !.in_condition = TRUE]), LAMBDA r :
    Ok([r.parser EXCEPT !.in_condition = FALSE], r.node))

RECURSIVE statement(_)

\* `while self.current_token_info.token != <stop> { nodes.push(self.statement()); }`
RECURSIVE statements_until(_, _, _)
statements_until(P, stops, nodes) ==
    IF CurrentType(P) \in stops THEN Ok(P, nodes)
    ELSE AndThen(statement(P), LAMBDA r :
         statements_until(r.parser, stops, Append(nodes, r.node)))

\* the else clause as it would be if the statements parsed after `else`
\* were not kept
else_clause_dropped(P) ==
    IF CurrentType(P) = "Else"
    THEN AndThen(eat(P, Tok("Else")), LAMBDA e :
         AndThen(statements_until(e.parser, {"EndIf"}, <<>>), LAMBDA f :
         Ok(f.parser, <<>>)))
    ELSE Ok(P, <<>>)

else_clause(P) ==
    IF CurrentType(P) = "Else"
    THEN AndThen(eat(P, Tok("Else")), LAMBDA e :
         statements_until(e.parser, {"EndIf"}, <<>>))
    ELSE Ok(P, <<>>)

if_statement(P) ==
    AndThen(eat(P, Tok("If")), LAMBDA e :
    AndThen(condition(e.parser), LAMBDA c :
    AndThen(eat(c.parser, Tok("Then")), LAMBDA e2 :
    AndThen(statements_until(e2.parser, {"Else", "EndIf"}, <<>>), LAMBDA t :
    AndThen(else_clause(t.parser), LAMBDA f :
    AndThen(eat(f.parser, Tok("EndIf")), LAMBDA e3 :
    Ok(e3.parser, If(c.node, t.node, f.node))))))))

loop_statement(P) ==
    AndThen(eat(P, Tok("Loop")), LAMBDA e :
    AndThen(eat(e.parser, Tok("While")), LAMBDA e2 :
    AndThen(condition(e2.parser), LAMBDA c :
    AndThen(statements_until(c.parser, {"EndLoop"}, <<>>), LAMBDA b :
    AndThen(eat(b.parser, Tok("EndLoop")), LAMBDA e3 :
    Ok(e3.parser, Loop(c.node, b.node)))))))

statement(P) ==
    CASE CurrentType(P) = "Identifier" -> assignment_statement(P)
      [] CurrentType(P) = "Output"     -> output_statement(P)
      [] CurrentType(P) = "If"         -> if_statement(P)
      [] CurrentType(P) = "Loop"       -> loop_statement(P)
      [] OTHER                         -> Fail(P, "Unexpected token")

parse(P) ==
    AndThen(statements_until(P, {"Eof"}, <<>>), LAMBDA r :
    Ok(r.parser, Program(r.node)))

\* main.rs: Parser::new(lexer), then parser.parse()
run_parser(L) == AndThen(ParserNew(L), LAMBDA p : parse(p.parser))

(***************************************************************************)
(* Interpreter: expression evaluation                                      *)
(***************************************************************************)
EvalOk(value) == [panic |-> "", value |-> value]

EvalErr(msg) == [panic |-> msg, value |-> 0]

Abs(n) == IF n < 0 THEN -n ELSE n

\* i64 `/` truncates toward zero; `%` takes the sign of the dividend
Quot(l, r) ==
    IF (l < 0) = (r < 0) THEN Abs(l) \div Abs(r) ELSE -(Abs(l) \div Abs(r))

Rem(l, r) == l - r * Quot(l, r)

Bool(b) == IF b THEN 1 ELSE 0

\* the `match op` of eval_expr, on the two operand values already evaluated
apply_op(op, left_val, right_val, flag) ==
    CASE op.type = "Plus"  -> EvalOk(left_val + right_val)
      [] op.type = "Minus" -> EvalOk(left_val - right_val)
      [] op.type = "Star"  -> EvalOk(left_val * right_val)
      [] op.type = "Slash" ->
           IF right_val = 0 THEN EvalErr("attempt to divide by zero")
           ELSE EvalOk(Quot(left_val, right_val))
      [] op.type = "Mod" ->
           IF right_val = 0
           THEN EvalErr("attempt to calculate the remainder with a divisor of zero")
           ELSE EvalOk(Rem(left_val, right_val))
      [] op.type = "Assign" /\ flag    -> EvalOk(Bool(left_val = right_val))
      [] op.type = "NotEqual"           -> EvalOk(Bool(left_val # right_val))
      [] op.type = "GreaterThan"        -> EvalOk(Bool(left_val > right_val))
      [] op.type = "GreaterThanOrEqual" -> EvalOk(Bool(left_val >= right_val))
      [] op.type = "LessThan"           -> EvalOk(Bool(left_val < right_val))
      [] op.type = "LessThanOrEqual"    -> EvalOk(Bool(left_val <= right_val))
      [] op.type = "And" -> EvalOk(Bool(left_val # 0 /\ right_val # 0))
      [] op.type = "Or"  -> EvalOk(Bool(left_val # 0 \/ right_val # 0))
      [] OTHER -> EvalErr("Unknown binary operator")

\* the lookup as it would be if an unbound name read as 0
lookup_or_zero(env, name) ==
    IF name \in DOMAIN env THEN EvalOk(env[name]) ELSE EvalOk(0)

\* `*self.variables.get(name).expect("Undefined variable")`
lookup(env, name) ==
    IF name \in DOMAIN env THEN EvalOk(env[name]) ELSE EvalErr("Undefined variable")

\* the BinOp arm as it would be if `and` and `or` were short-circuited
eval_binop_short_circuit(op, left, right, flag) ==
    IF left.panic # "" THEN left
    ELSE IF op.type = "And" /\ left.value = 0 THEN EvalOk(0)
    ELSE IF op.type = "Or" /\ left.value # 0 THEN EvalOk(1)
    ELSE IF right.panic # "" THEN right
    ELSE apply_op(op, left.value, right.value, flag)

\* BinOp arm, given the outcome of evaluating the left operand and the
\* outcome the right operand has if it is evaluated: a panic in the left
\* operand unwinds before the right operand is looked at
eval_binop(op, left, right, flag) ==
    IF left.panic # "" THEN left
    ELSE IF right.panic # "" THEN right
    ELSE apply_op(op, left.value, right.value, flag)

RECURSIVE eval_expr(_, _, _)
eval_expr(node, env, flag) ==
    CASE node.kind = "Number"     -> EvalOk(node.value)
      [] node.kind = "String"     -> EvalErr("Cannot evaluate string as number")
      [] node.kind = "Identifier" -> lookup(env, node.name)
      [] node.kind = "BinOp" ->
           eval_binop(node.op, eval_expr(node.left, env, flag),
                      eval_expr(node.right, env, flag), flag)
      [] OTHER -> EvalErr("Unknown expression")

\* the insert as it would be if it replaced the whole map
insert_only(env, name, value) == [n \in {name} |-> value]

\* self.variables.insert(name, value)
insert(env, name, value) ==
    [n \in DOMAIN env \cup {name} |-> IF n = name THEN value ELSE env[n]]

DigitChar(d) ==
    CASE d = 0 -> "0" [] d = 1 -> "1" [] d = 2 -> "2" [] d = 3 -> "3"
      [] d = 4 -> "4" [] d = 5 -> "5" [] d = 6 -> "6" [] d = 7 -> "7"
      [] d = 8 -> "8" [] d = 9 -> "9"

RECURSIVE DecimalNat(_)
DecimalNat(n) ==
    IF n < 10 THEN DigitChar(n) ELSE DecimalNat(n \div 10) \o DigitChar(n % 10)

\* the `{}` formatting of an i64
Display(value) == IF value < 0 THEN "-" \o DecimalNat(-value) ELSE DecimalNat(value)

(***************************************************************************)
(* Bounds and inputs                                                       *)
(***************************************************************************)
MaxLit == 3         \* literals of the generated programs range over 0..MaxLit

MaxValue == 10      \* an Assignment is explored while |value| <= MaxValue

MaxOutput == 4      \* an Output is explored while fewer lines were written

MaxLen == 3         \* length of the texts the lexer is run on by itself

MaxEofCalls == 2    \* get_next_token calls explored after the first Eof

MaxBranch == 2      \* statements written in a branch of the generated ifs

Lits == 0 .. MaxLit

RelText == {"=", "!=", ">", ">=", "<", "<=", "and", "or"}

ArithText == {"+", "-", "*", "/", "mod", "div"}

\* x = l, then an if whose condition compares x with r
IfProgram(l, op, r) ==
    "x = " \o Display(l) \o " if x " \o op \o " " \o Display(r)
        \o " then output 1 else output 0 endif output 2"

\* x = l, then a loop that counts x down while the condition x op r holds
LoopProgram(l, op, r) ==
    "x = " \o Display(l) \o " loop while x " \o op \o " " \o Display(r)
        \o " x = x - 1 endloop output x"

\* an expression of three operands and two arithmetic operators
ArithProgram(a, op1, b, op2, c) ==
    "output " \o Display(a) \o " " \o op1 \o " " \o Display(b) \o " " \o op2
        \o " " \o Display(c)

\* a condition of three operands and two operators of any level
CondProgram(a, op1, b, op2, c) ==
    "if " \o Display(a) \o " " \o op1 \o " " \o Display(b) \o " " \o op2
        \o " " \o Display(c) \o " then output 1 else output 0 endif"

Examples ==
    { "output 10 - 3 - 2",
      "output 2 + 3 * 4",
      "a = 7 b = 2 output a / b",
      "x = 5 if x = 5 then output 1 else output 0 endif",
      "x = 10 loop while x > 0 x = x - 1 endloop output x",
      "output \"hello\"",
      "output y",
      "a = 1 b = 0 output a / b",
      "output 1 a = 1 b = 0 output a / b output 2",
      "output 1 output 5 mod 0 output 2",
      "x = 1 output \"s\" + 1 x = 2",
      "x = \"s\" output x",
      "x = x + 1 output 3",
      "x = 1 x = 2 output x",
      "x = 1 y = x x = y + 1 output x output y",
      "x = 1 if 0 and y then output 1 endif x = 2",
      "x = 1 if 1 or y then output 1 endif x = 2",
      "if 1 or 1 / 0 then output 1 endif output 2",
      "if y and 1 / 0 then output 1 endif",
      "if 1 / 0 and y then output 1 endif",
      "if 0 and 0 then output 1 else output 0 endif",
      "a = 1 b = 1 if a > 0 and b > 0 then output 1 else output 0 endif",
      "x = 2 loop while x > 0 if x > 1 then y = 7 endif x = x - 1 endloop output y output x",
      "x = 2 loop while x > 0 y = 2 loop while y > 0 y = y - 1 endloop x = x - 1 endloop output x",
      "loop while 0 output 1 endloop output 2",
      "x = 1 loop while x output x x = 1 / 0 endloop output 9",
      "x = 3 loop while x = 3 x = 0 endloop output x",
      "if 1 then x = 4 else x = 5 endif output x",
      "if 0 then x = 4 else x = 5 endif output x",
      "if 1 then output 1 endif",
      "if 1 then else endif output 3",
      "if 1 then output 1 else endif",
      "x = 0 - 5 output x / 2 output x mod 2 output x",
      "x = (1 + 2) * 3 - 4 output x",
      "output 7 div 2",
      "x = 1\noutput x\t\n",
      "output \"abc",
      "output",
      "x 5",
      "output 1 !",
      "output 1 # 2",
      "output (1 + 2",
      "if 1 output 1",
      "loop 1 endloop",
      "endif",
      "" }

\* n copies of a statement
RECURSIVE Repeated(_, _)
Repeated(text, n) == IF n = 0 THEN "" ELSE text \o Repeated(text, n - 1)

\* an if with nTrue statements after `then` and, when hasElse, an `else`
\* followed by nFalse statements
IfElseProgram(c, nTrue, hasElse, nFalse) ==
    "if " \o Display(c) \o " then" \o Repeated(" output 1", nTrue)
        \o (IF hasElse THEN " else" \o Repeated(" output 0", nFalse) ELSE "")
        \o " endif"

\* the same if, written as the only statement of the true branch of an if
\* that has no `else` of its own
NestedIfProgram(c, nTrue, hasElse, nFalse) ==
    "if 1 then " \o IfElseProgram(c, nTrue, hasElse, nFalse) \o " endif"

Programs ==
    Examples
      \cup {IfElseProgram(c, nTrue, hasElse, nFalse) :
                c \in {0, 1}, nTrue \in 0 .. MaxBranch, hasElse \in BOOLEAN,
                nFalse \in 0 .. MaxBranch}
      \cup {NestedIfProgram(c, nTrue, hasElse, nFalse) :
                c \in {0, 1}, nTrue \in 0 .. MaxBranch, hasElse \in BOOLEAN,
                nFalse \in 0 .. MaxBranch}
      \cup {IfProgram(l, op, r) : l \in Lits, op \in RelText, r \in Lits}
      \cup {LoopProgram(l, op, r) : l \in Lits, op \in RelText, r \in Lits}
      \cup {ArithProgram(3, op1, 2, op2, 1) : op1 \in ArithText, op2 \in ArithText}
      \cup {CondProgram(3, op1, 2, op2, 1) :
                op1 \in RelText \cup ArithText, op2 \in RelText \cup ArithText}

(***************************************************************************)
(* Interpreter: statement execution.  `frames` holds the active calls of   *)
(* interpret(): a Program frame iterates the program's statements, an If   *)
(* frame the chosen branch, a Loop frame the body of the iteration in      *)
(* progress.  idx is the position of the next statement of the frame.      *)
(***************************************************************************)
EmptyEnv == [n \in {} |-> 0]

Frame(kind, node, stmts) == [kind |-> kind, node |-> node, stmts |-> stmts, idx |-> 1]

Running == status = "running" /\ frames # <<>>

Top == frames[Len(frames)]

HasNext == Top.idx <= Len(Top.stmts)

Node == Top.stmts[Top.idx]

\* the for loop of the caller moves on to its next statement
Stepped == [frames EXCEPT ![Len(frames)].idx = @ + 1]

Popped == SubSeq(frames, 1, Len(frames) - 1)

\* the If arm as it would be if the flag were not set before the evaluation
if_condition_flag_unset(node) == eval_expr(node.condition, variables, in_condition)

\* `self.in_condition = true; let cond_value = self.eval_expr(condition);`
if_condition(node) == eval_expr(node.condition, variables, TRUE)

\* `while self.eval_expr(condition) != 0`
loop_condition(node) == eval_expr(node.condition, variables, in_condition)

\* the panic, if any, that the next step of the interpreter ends in
PendingPanic ==
    IF HasNext
    THEN CASE Node.kind = "Program"    -> ""
           [] Node.kind = "Assignment" -> eval_expr(Node.expr, variables, in_condition).panic
           [] Node.kind = "Output" ->
                IF Node.expr.kind = "String" THEN ""
                ELSE eval_expr(Node.expr, variables, in_condition).panic
           [] Node.kind = "If"   -> if_condition(Node).panic
           [] Node.kind = "Loop" -> loop_condition(Node).panic
           [] OTHER -> "Unknown AST node"
    ELSE IF Top.kind = "Loop" THEN loop_condition(Top.node).panic ELSE ""

Init ==
    /\ source \in Programs
    /\ lexer = LexerNew(source)
    /\ returned = <<>>
    /\ ast = NoAst
    /\ variables = EmptyEnv
    /\ in_condition = FALSE
    /\ output = <<>>
    /\ frames = <<>>
    /\ status = "start"
    /\ panic_msg = ""
    /\ history = <<>>

Parsed(r) ==
    /\ lexer' = r.parser.lexer
    /\ ast' = r.node
    /\ status' = IF r.panic # "" THEN "panicked" ELSE "parsed"
    /\ panic_msg' = r.panic

\* main.rs: Parser::new(lexer), parser.parse(), Interpreter::new()
Parse ==
    /\ status = "start"
    /\ Parsed(run_parser(lexer))
    /\ UNCHANGED <<source, returned, variables, in_condition, output, frames, history>>

\* interpret(): the Program arm is entered (main.rs calls it on the root)
InterpretProgram ==
    /\ IF status = "parsed" THEN ast.kind = "Program"
       ELSE Running /\ HasNext /\ Node.kind = "Program"
    /\ frames' = IF status = "parsed"
                 THEN <<Frame("Program", ast, ast.statements)>>
                 ELSE Append(Stepped, Frame("Program", Node, Node.statements))
    /\ status' = "running"
    /\ UNCHANGED <<source, lexer, returned, ast, variables, in_condition, output,
                   panic_msg, history>>

InterpretAssignment ==
    /\ Running /\ HasNext /\ Node.kind = "Assignment"
    /\ LET value == eval_expr(Node.expr, variables, in_condition)
       IN  /\ value.panic = ""
           /\ Abs(value.value) <= MaxValue
           /\ variables' = insert(variables, Node.name, value.value)
           /\ history' = Append(history, <<Node.name, value.value>>)
    /\ frames' = Stepped
    /\ UNCHANGED <<source, lexer, returned, ast, in_condition, output, status, panic_msg>>

InterpretOutput ==
    /\ Running /\ HasNext /\ Node.kind = "Output"
    /\ Len(output) < MaxOutput
    /\ IF Node.expr.kind = "String"
       THEN output' = Append(output, Node.expr.text)
       ELSE LET value == eval_expr(Node.expr, variables, in_condition)
            IN  /\ value.panic = ""
                /\ output' = Append(output, Display(value.value))
    /\ frames' = Stepped
    /\ UNCHANGED <<source, lexer, returned, ast, variables, in_condition, status,
                   panic_msg, history>>

InterpretIf ==
    /\ Running /\ HasNext /\ Node.kind = "If"
    /\ LET cond_value == if_condition(Node)
       IN  /\ cond_value.panic = ""
           /\ frames' = Append(Stepped,
                               IF cond_value.value # 0
                               THEN Frame("True", Node, Node.true_branch)
                               ELSE Frame("False", Node, Node.false_branch))
    /\ in_condition' = FALSE
    /\ UNCHANGED <<source, lexer, returned, ast, variables, output, status,
                   panic_msg, history>>

\* the Loop arm as it would be if the body ran before the first test
InterpretLoopPostTest ==
    /\ Running /\ HasNext /\ Node.kind = "Loop"
    /\ frames' = Append(Stepped, Frame("Loop", Node, Node.body))
    /\ UNCHANGED <<source, lexer, returned, ast, variables, in_condition, output,
                   status, panic_msg, history>>

\* the first evaluation of a Loop's condition
InterpretLoop ==
    /\ Running /\ HasNext /\ Node.kind = "Loop"
    /\ LET cond_value == loop_condition(Node)
       IN  /\ cond_value.panic = ""
           /\ frames' = IF cond_value.value # 0
                        THEN Append(Stepped, Frame("Loop", Node, Node.body))
                        ELSE Stepped
    /\ UNCHANGED <<source, lexer, returned, ast, variables, in_condition, output,
                   status, panic_msg, history>>

\* the body of a Loop has run: the condition is evaluated again
LoopAgain ==
    /\ Running /\ ~HasNext /\ Top.kind = "Loop"
    /\ LET cond_value == loop_condition(Top.node)
       IN  /\ cond_value.panic = ""
           /\ frames' = IF cond_value.value # 0
                        THEN [frames EXCEPT ![Len(frames)].idx = 1]
                        ELSE Popped
    /\ UNCHANGED <<source, lexer, returned, ast, variables, in_condition, output,
                   status, panic_msg, history>>

\* the statements of a Program or of an If branch are exhausted: interpret()
\* returns to its caller, and the root call returns to main
Return ==
    /\ Running /\ ~HasNext /\ Top.kind # "Loop"
    /\ frames' = Popped
    /\ status' = IF Len(frames) = 1 THEN "done" ELSE status
    /\ UNCHANGED <<source, lexer, returned, ast, variables, in_condition, output,
                   panic_msg, history>>

\* the panic as it would be if the failing statement were skipped
PanicSkipsStatement ==
    /\ Running
    /\ PendingPanic # ""
    /\ HasNext
    /\ frames' = Stepped
    /\ panic_msg' = PendingPanic
    /\ UNCHANGED <<source, lexer, returned, ast, variables, in_condition, output,
                   status, history>>

\* a panic inside interpret() or eval_expr() ends the process
Panic ==
    /\ Running
    /\ PendingPanic # ""
    /\ status' = "panicked"
    /\ panic_msg' = PendingPanic
    /\ in_condition' = IF HasNext /\ Node.kind = "If" THEN TRUE ELSE in_condition
    /\ UNCHANGED <<source, lexer, returned, ast, variables, output, frames, history>>

Next ==
    \/ Parse
    \/ InterpretProgram
    \/ InterpretAssignment
    \/ InterpretOutput
    \/ InterpretIf
    \/ InterpretLoop
    \/ LoopAgain
    \/ Return
    \/ Panic

Spec == Init /\ [][Next]_vars

(***************************************************************************)
(* The lexer by itself: get_next_token is called again and again on a text *)
(***************************************************************************)
Alphabet == {"a", "1", " ", "\n", "\"", "=", ">", "!", "+"}

RECURSIVE Texts(_)
Texts(n) ==
    IF n = 0 THEN {""}
    ELSE Texts(n - 1) \cup {t \o c : t \in Texts(n - 1), c \in Alphabet}

EofCalls == Cardinality({i \in DOMAIN returned : returned[i].token.type = "Eof"})

InitLexer ==
    /\ source \in Texts(MaxLen)
    /\ lexer = LexerNew(source)
    /\ returned = <<>>
    /\ ast = NoAst
    /\ variables = EmptyEnv
    /\ in_condition = FALSE
    /\ output = <<>>
    /\ frames = <<>>
    /\ status = "lexing"
    /\ panic_msg = ""
    /\ history = <<>>

GetNextToken ==
    /\ status = "lexing"
    /\ EofCalls <= MaxEofCalls
    /\ LET r == get_next_token(lexer)
       IN  /\ lexer' = r.lexer
           /\ returned' = IF r.panic # "" THEN returned ELSE Append(returned, r.info)
           /\ status' = IF r.panic # "" THEN "panicked" ELSE status
           /\ panic_msg' = r.panic
    /\ UNCHANGED <<source, ast, variables, in_condition, output, frames, history>>

NextLexer == GetNextToken

SpecLexer == InitLexer /\ [][NextLexer]_vars

(***************************************************************************)
(* Vocabulary of the properties                                            *)
(***************************************************************************)
InternalErrors == {"Unknown binary operator", "Unknown expression", "Unknown AST node"}

\* the interpreter is about to evaluate the condition of a Loop: for the
\* first time, or again after its body has run
LoopTestPending ==
    /\ Running
    /\ IF HasNext THEN Node.kind = "Loop" ELSE Top.kind = "Loop"

PendingLoop == IF HasNext THEN Node ELSE Top.node

IfPending == Running /\ HasNext /\ Node.kind = "If"

\* c is an `=` comparison whose two operands have values in the Environment
EqComparison(c) ==
    /\ c.kind = "BinOp"
    /\ c.op.type = "Assign"
    /\ eval_expr(c.left, variables, TRUE).panic = ""
    /\ eval_expr(c.right, variables, TRUE).panic = ""

OperandsEqual(c) ==
    eval_expr(c.left, variables, TRUE).value = eval_expr(c.right, variables, TRUE).value

\* what the relational operator written `op` means on two integers
Holds(a, op, b) ==
    CASE op = "="   -> a = b
      [] op = "!="  -> a # b
      [] op = ">"   -> a > b
      [] op = ">="  -> a >= b
      [] op = "<"   -> a < b
      [] op = "<="  -> a <= b
      [] op = "and" -> a # 0 /\ b # 0
      [] op = "or"  -> a # 0 \/ b # 0

\* the frame on top of the call stack after the step
TopAfter == frames'[Len(frames')]

(***************************************************************************)
(* C1: every evaluation of a Loop's condition, the first and each one      *)
(* after the body, is made with the in-condition flag set, so an `=`       *)
(* comparison in a `loop while` condition yields 1 when its operands are   *)
(* equal, 0 otherwise, and never ends in a fatal error: the body is        *)
(* entered exactly when the operands are equal.                            *)
(***************************************************************************)
C1_LoopEqualityEvaluates ==
    [][(LoopTestPending /\ EqComparison(PendingLoop.condition))
         => /\ status' = "running"
            /\ IF OperandsEqual(PendingLoop.condition)
               THEN /\ Len(frames') > 0
                    /\ TopAfter.kind = "Loop" /\ TopAfter.idx = 1
                    /\ TopAfter.node = PendingLoop
               ELSE frames' = IF HasNext THEN Stepped ELSE Popped]_vars

(***************************************************************************)
(* C2: an `=` comparison in the condition of an `if` yields 1 when its     *)
(* operands are equal and 0 otherwise; the true branch runs exactly when   *)
(* the condition is nonzero and the false branch exactly when it is zero;  *)
(* the in-condition flag is false whenever a statement is about to run.    *)
(***************************************************************************)
C2_IfEquality ==
    /\ [][IfPending =>
            /\ EqComparison(Node.condition) =>
                 /\ status' = "running"
                 /\ TopAfter.kind = IF OperandsEqual(Node.condition) THEN "True" ELSE "False"
            /\ status' = "running" =>
                 /\ in_condition' = FALSE
                 /\ Len(frames') = Len(frames) + 1
                 /\ TopAfter.idx = 1
                 /\ TopAfter.kind \in {"True", "False"}
                 /\ (TopAfter.kind = "True") = (eval_expr(Node.condition, variables, TRUE).value # 0)
                 /\ TopAfter.stmts = IF TopAfter.kind = "True" THEN Node.true_branch
                                     ELSE Node.false_branch]_vars
    /\ [](Running => in_condition = FALSE)
    /\ [](\A l \in Lits, r \in Lits, op \in RelText :
            (source = IfProgram(l, op, r) /\ status = "done")
               => output = <<IF Holds(l, op, r) THEN "1" ELSE "0", "2">>)
    /\ []((source = "x = 5 if x = 5 then output 1 else output 0 endif" /\ status = "done")
               => output = <<"1">>)

C2_Witness ==
    /\ source = IfProgram(2, "=", 2)
    /\ status = "done"
    /\ output = <<"1", "2">>

(***************************************************************************)
(* More vocabulary: the expression the next step evaluates                 *)
(***************************************************************************)
RuntimeErrors ==
    {"attempt to divide by zero",
     "attempt to calculate the remainder with a divisor of zero",
     "Undefined variable",
     "Cannot evaluate string as number"}

\* the next step of the interpreter evaluates an expression
EvalPending ==
    /\ Running
    /\ IF HasNext
       THEN \/ Node.kind \in {"Assignment", "If", "Loop"}
            \/ (Node.kind = "Output" /\ Node.expr.kind # "String")
       ELSE Top.kind = "Loop"

PendingExpr ==
    IF HasNext
    THEN IF Node.kind \in {"If", "Loop"} THEN Node.condition ELSE Node.expr
    ELSE Top.node.condition

\* the in-condition flag under which PendingExpr is evaluated
PendingFlag == IF HasNext /\ Node.kind = "If" THEN TRUE ELSE in_condition

RECURSIVE BinOps(_)
BinOps(e) ==
    IF e.kind = "BinOp" THEN {e} \cup BinOps(e.left) \cup BinOps(e.right) ELSE {}

RECURSIVE Leaves(_)
Leaves(e) ==
    IF e.kind = "BinOp" THEN Leaves(e.left) \o Leaves(e.right) ELSE <<e>>

\* some operand of the pending expression cannot be evaluated: an unbound
\* Identifier, a String, or a `/` or `mod` whose divisor evaluates to zero
FatalPending ==
    /\ EvalPending
    /\ \/ \E i \in DOMAIN Leaves(PendingExpr) :
             \/ Leaves(PendingExpr)[i].kind = "String"
             \/ /\ Leaves(PendingExpr)[i].kind = "Identifier"
                /\ Leaves(PendingExpr)[i].name \notin DOMAIN variables
       \/ \E b \in BinOps(PendingExpr) :
             /\ b.op.type \in {"Slash", "Mod"}
             /\ eval_expr(b.right, variables, PendingFlag) = EvalOk(0)

(***************************************************************************)
(* C3: once a fatal runtime condition occurs (division or modulo by zero,  *)
(* read of an undefined variable, a String operand in numeric evaluation)  *)
(* interpretation stops there: the step ends in a panic that leaves output *)
(* and Environment as they were, and nothing changes afterwards; the       *)
(* output is the lines of the Output statements completed before.          *)
(***************************************************************************)
C3_FatalStops ==
    /\ [][FatalPending => /\ status' = "panicked"
                          /\ output' = output
                          /\ variables' = variables
                          /\ frames' = frames]_vars
    /\ [][status # "panicked"]_vars
    /\ []((source = "a = 1 b = 0 output a / b" /\ status \in {"panicked", "done"})
            => (status = "panicked" /\ output = <<>>))
    /\ []((source = "output 1 a = 1 b = 0 output a / b output 2"
             /\ status \in {"panicked", "done"})
            => (status = "panicked" /\ output = <<"1">>
                  /\ panic_msg = "attempt to divide by zero"))

C3_Witness ==
    /\ source = "output 1 a = 1 b = 0 output a / b output 2"
    /\ status = "panicked"
    /\ panic_msg = "attempt to divide by zero"
    /\ output = <<"1">>
    /\ DOMAIN variables = {"a", "b"}

(***************************************************************************)
(* C4: evaluating Identifier(n) yields the value of the most recently      *)
(* completed Assignment to n when there is one and is a fatal              *)
(* undefined-variable error otherwise; an Assignment whose right-hand      *)
(* side reads its own unassigned target fails without creating the         *)
(* binding, and `output y` with y never assigned emits nothing.            *)
(***************************************************************************)
AssignmentsTo(n) == {i \in DOMAIN history : history[i][1] = n}

LastAssignmentTo(n) ==
    CHOOSE i \in AssignmentsTo(n) : \A j \in AssignmentsTo(n) : j <= i

NamesRead == {"x", "y", "a", "b"}

C4_IdentifierReadsLastAssignment ==
    /\ \A n \in NamesRead \cup DOMAIN variables :
         eval_expr(Identifier(n), variables, in_condition) =
            IF AssignmentsTo(n) = {} THEN EvalErr("Undefined variable")
            ELSE EvalOk(history[LastAssignmentTo(n)][2])
    /\ (source = "x = x + 1 output 3" /\ status \in {"panicked", "done"})
          => (status = "panicked" /\ panic_msg = "Undefined variable"
                /\ DOMAIN variables = {} /\ output = <<>>)
    /\ (source = "output y" /\ status \in {"panicked", "done"})
          => (status = "panicked" /\ panic_msg = "Undefined variable" /\ output = <<>>)
    /\ (source = "x = 1 x = 2 output x" /\ status = "done") => output = <<"2">>

C4_Witness ==
    /\ source = "x = 1 y = x x = y + 1 output x output y"
    /\ status = "done"
    /\ Len(history) = 3
    /\ output = <<"2", "1">>

(***************************************************************************)
(* C5: BinOp evaluates left, then right, then applies the operator, for    *)
(* every operator including `and` and `or`: a fatal error in either        *)
(* operand of any BinOp of the evaluated expression aborts the program,    *)
(* also when the left operand alone decides the result, and an error in    *)
(* the left operand is the one raised.                                     *)
(***************************************************************************)
C5_BothOperandsEvaluated ==
    [][EvalPending =>
         \A b \in BinOps(PendingExpr) :
            LET l == eval_expr(b.left, variables, PendingFlag)
                r == eval_expr(b.right, variables, PendingFlag)
            IN  /\ (l.panic # "" \/ r.panic # "") => status' = "panicked"
                /\ l.panic # "" => eval_expr(b, variables, PendingFlag) = l
                /\ (l.panic = "" /\ r.panic # "")
                      => eval_expr(b, variables, PendingFlag) = r
                /\ (b = PendingExpr /\ l.panic # "") => panic_msg' = l.panic
                /\ (b = PendingExpr /\ l.panic = "" /\ r.panic # "")
                      => panic_msg' = r.panic]_vars

C5_Witness ==
    /\ source = "x = 1 if 0 and y then output 1 endif x = 2"
    /\ status = "panicked"
    /\ panic_msg = "Undefined variable"
    /\ history = << <<"x", 1>> >>

(***************************************************************************)
(* C6: a Loop is a pre-test loop over the one global Environment: the      *)
(* condition is evaluated before every iteration, the whole body runs once *)
(* per nonzero evaluation, the loop ends at the first zero evaluation      *)
(* (zero iterations if the first one is zero), and bindings made in the    *)
(* body or in an if branch are seen by the next condition evaluation and   *)
(* by the statements after the loop.                                       *)
(***************************************************************************)
\* the number of iterations a pre-test loop `while x op r: x = x - 1` makes
\* from x = l, when it ends before x falls below -MaxValue - 1
Ends(l, op, r, k) ==
    /\ ~Holds(l - k, op, r)
    /\ \A j \in 0 .. k - 1 : Holds(l - j, op, r)

Terminates(l, op, r) == \E k \in 0 .. l + MaxValue + 1 : Ends(l, op, r, k)

Iterations(l, op, r) == CHOOSE k \in 0 .. l + MaxValue + 1 : Ends(l, op, r, k)

C6_PreTestLoop ==
    /\ [][(LoopTestPending /\ status' = "running") =>
            LET v == eval_expr(PendingLoop.condition, variables, in_condition).value
            IN  /\ variables' = variables
                /\ output' = output
                /\ IF v # 0
                   THEN /\ TopAfter.kind = "Loop" /\ TopAfter.idx = 1
                        /\ TopAfter.node = PendingLoop
                        /\ TopAfter.stmts = PendingLoop.body
                        /\ Len(frames') = IF HasNext THEN Len(frames) + 1 ELSE Len(frames)
                   ELSE frames' = IF HasNext THEN Stepped ELSE Popped]_vars
    \* a body is entered only by a condition evaluation, and statements run
    \* only from the frame on top: a Loop frame is left only from its end
    /\ [][(Len(frames') > 0 /\ TopAfter.kind = "Loop" /\ TopAfter.idx = 1
             /\ (Len(frames) = 0 \/ frames' # frames) /\ status = "running"
             /\ (Len(frames') # Len(frames) \/ Top.idx # 1))
            => LoopTestPending]_vars
    /\ [][(Running /\ Top.kind = "Loop" /\ Len(frames') < Len(frames))
            => (~HasNext /\ LoopTestPending)]_vars
    \* leaving a block (an if branch, a loop body) leaves the Environment alone
    /\ [][Len(frames') < Len(frames) => variables' = variables]_vars
    /\ [](\A l \in Lits, r \in Lits, op \in RelText :
            (source = LoopProgram(l, op, r) /\ status = "done")
               => /\ Terminates(l, op, r)
                  /\ Len(history) = 1 + Iterations(l, op, r)
                  /\ output = <<Display(l - Iterations(l, op, r))>>)
    /\ []((source = "x = 10 loop while x > 0 x = x - 1 endloop output x"
             /\ status = "done") => (output = <<"0">> /\ Len(history) = 11))
    /\ []((source = "x = 2 loop while x > 0 if x > 1 then y = 7 endif x = x - 1 endloop output y output x"
             /\ status = "done") => output = <<"7", "0">>)
    /\ []((source = "loop while 0 output 1 endloop output 2" /\ status = "done")
            => output = <<"2">>)

C6_Witness ==
    /\ source = "x = 10 loop while x > 0 x = x - 1 endloop output x"
    /\ status = "done"
    /\ output = <<"0">>

(***************************************************************************)
(* C7: the parser builds operator trees with three precedence levels, each *)
(* left-associative: `*`, `/`, `mod`, `div` bind tighter than `+`, `-`,    *)
(* which bind tighter than the operators of a condition, which share one   *)
(* level; `10 - 3 - 2` is 5, `2 + 3 * 4` is 14, and `a > 0 and b > 0` is   *)
(* grouped as ((a > 0) and b) > 0.                                         *)
(***************************************************************************)
OpToken(text) ==
    CASE text = "+"   -> Tok("Plus")
      [] text = "-"   -> Tok("Minus")
      [] text = "*"   -> Tok("Star")
      [] text = "/"   -> Tok("Slash")
      [] text = "mod" -> Tok("Mod")
      [] text = "div" -> Tok("Div")
      [] text = "="   -> Tok("Assign")
      [] text = "!="  -> Tok("NotEqual")
      [] text = ">"   -> Tok("GreaterThan")
      [] text = ">="  -> Tok("GreaterThanOrEqual")
      [] text = "<"   -> Tok("LessThan")
      [] text = "<="  -> Tok("LessThanOrEqual")
      [] text = "and" -> Tok("And")
      [] text = "or"  -> Tok("Or")

Level(text) ==
    IF text \in {"*", "/", "mod", "div"} THEN 3
    ELSE IF text \in {"+", "-"} THEN 2 ELSE 1

\* the tree of `a op1 b op2 c` under precedence levels and left-associativity
Grouped(a, op1, b, op2, c) ==
    IF Level(op2) > Level(op1)
    THEN BinOp(Number(a), OpToken(op1), BinOp(Number(b), OpToken(op2), Number(c)))
    ELSE BinOp(BinOp(Number(a), OpToken(op1), Number(b)), OpToken(op2), Number(c))

C7_PrecedenceAndAssociativity ==
    /\ \A op1 \in ArithText, op2 \in ArithText :
         (source = ArithProgram(3, op1, 2, op2, 1) /\ status # "start")
            => ast = Program(<<Output(Grouped(3, op1, 2, op2, 1))>>)
    /\ \A op1 \in RelText \cup ArithText, op2 \in RelText \cup ArithText :
         (source = CondProgram(3, op1, 2, op2, 1) /\ status # "start")
            => ast = Program(<<If(Grouped(3, op1, 2, op2, 1),
                                  <<Output(Number(1))>>, <<Output(Number(0))>>)>>)
    /\ (source = "output 10 - 3 - 2" /\ status = "done") => output = <<"5">>
    /\ (source = "output 2 + 3 * 4" /\ status = "done") => output = <<"14">>
    /\ (source = "a = 1 b = 1 if a > 0 and b > 0 then output 1 else output 0 endif"
          /\ status # "start")
         => ast.statements[3].condition =
              BinOp(BinOp(BinOp(Identifier("a"), Tok("GreaterThan"), Number(0)),
                          Tok("And"), Identifier("b")),
                    Tok("GreaterThan"), Number(0))

C7_Witness ==
    /\ source = "output 10 - 3 - 2"
    /\ status = "done"
    /\ ast = Program(<<Output(BinOp(BinOp(Number(10), Tok("Minus"), Number(3)),
                                    Tok("Minus"), Number(2)))>>)
    /\ output = <<"5">>

(***************************************************************************)
(* C9: the Environment starts empty and is changed only by the completion  *)
(* of an Assignment, which changes the binding of its target and no other; *)
(* evaluating expressions, Output (a String literal is emitted unchanged,  *)
(* without a lookup) and If and Loop conditions leave it unchanged.        *)
(***************************************************************************)
C9_EnvironmentFrame ==
    /\ [](status \in {"start", "parsed"} => variables = EmptyEnv)
    /\ [][variables' # variables =>
            /\ Running /\ HasNext /\ Node.kind = "Assignment"
            /\ frames' = Stepped
            /\ DOMAIN variables' = DOMAIN variables \cup {Node.name}
            /\ \A n \in DOMAIN variables \ {Node.name} : variables'[n] = variables[n]
            /\ variables'[Node.name] =
                 eval_expr(Node.expr, variables, in_condition).value]_vars
    /\ [][(Running /\ HasNext /\ Node.kind = "Output" /\ Node.expr.kind = "String")
            => (output' = Append(output, Node.expr.text) /\ status' = "running")]_vars
    /\ []((source = "output \"hello\"" /\ status = "done")
            => (output = <<"hello">> /\ variables = EmptyEnv))

C9_Witness ==
    /\ source = "x = 1 y = x x = y + 1 output x output y"
    /\ status = "done"
    /\ DOMAIN variables = {"x", "y"}
    /\ variables["x"] = 2
    /\ variables["y"] = 1

(***************************************************************************)
(* C10: for every program the parser accepts, interpretation never reaches *)
(* the internal-error paths ("Unknown binary operator", "Unknown           *)
(* expression", "Unknown AST node").                                       *)
(***************************************************************************)
C10_NoInternalError == panic_msg \notin InternalErrors

(***************************************************************************)
(* C8: on an input that raises no lexical error the tokens returned by     *)
(* repeated get_next_token calls are finitely many and then Eof: every     *)
(* token but Eof consumes input, Eof is returned only at the end of the    *)
(* input, and once Eof is returned every later call returns Eof and        *)
(* consumes nothing; an unterminated string literal yields one String      *)
(* token holding the rest of the input, and Eof from then on.              *)
(***************************************************************************)
LastReturned == returned[Len(returned)]

\* the characters the lexer has not consumed yet
Remaining(L) == Len(L.input) + (IF L.current_char = None THEN 0 ELSE 1)

NoQuote(text) == \A i \in 1 .. Len(text) : SubSeq(text, i, i) # "\""

NonEofReturned ==
    Cardinality({i \in DOMAIN returned : returned[i].token.type # "Eof"})

C8_EofIsTerminal ==
    /\ [][(status = "lexing" /\ returned # <<>> /\ LastReturned.token.type = "Eof")
            => /\ status' = "lexing"
               /\ returned' = Append(returned, LastReturned)
               /\ lexer' = lexer]_vars
    /\ [][(returned' # returned /\ returned'[Len(returned')].token.type # "Eof")
            => Remaining(lexer') < Remaining(lexer)]_vars
    /\ [](NonEofReturned <= Len(source))
    /\ []((returned # <<>> /\ LastReturned.token.type = "Eof") => Remaining(lexer) = 0)
    /\ [][(status = "lexing" /\ lexer.current_char = "\"" /\ NoQuote(lexer.input))
            => /\ status' = "lexing"
               /\ returned'[Len(returned')].token = TokString(lexer.input)
               /\ Remaining(lexer') = 0]_vars

C8_Witness ==
    /\ source = "\"a1"
    /\ status = "lexing"
    /\ Len(returned) = 3
    /\ returned[1].token = TokString("a1")
    /\ returned[2].token = Tok("Eof")
    /\ returned[3].token = Tok("Eof")

(***************************************************************************)
(* C11: for every If node the parser produces, the false-branch sequence   *)
(* is empty exactly when the source `if` had no `else` clause: an `if`     *)
(* without `else` yields an empty false branch, and an `if` with an `else` *)
(* clause yields a non-empty false branch.                                 *)
(***************************************************************************)
BranchCounts == 0 .. MaxBranch

\* the statements of a branch of a generated if
Outputs(value, n) == [i \in 1 .. n |-> Output(Number(value))]

\* the parser returned an AST for the program text
ParsedOk == status \in {"parsed", "running", "done"}

C11_FalseBranchEmptyIffNoElse ==
    \A c \in {0, 1}, nTrue \in BranchCounts, hasElse \in BOOLEAN, nFalse \in BranchCounts :
       /\ (source = IfElseProgram(c, nTrue, hasElse, nFalse) /\ ParsedOk)
             => ((ast.statements[1].false_branch = <<>>) <=> ~hasElse)
       /\ (source = NestedIfProgram(c, nTrue, hasElse, nFalse) /\ ParsedOk)
             => ((ast.statements[1].true_branch[1].false_branch = <<>>) <=> ~hasElse)

(***************************************************************************)
(* C11, amended: the false branch of an If node is empty when the source   *)
(* `if` had no `else` clause, and otherwise it holds exactly the           *)
(* statements written between `else` and `endif`, in order: it is          *)
(* non-empty exactly when an `else` clause with at least one statement was *)
(* written, and an `else` followed at once by `endif` yields an empty      *)
(* false branch too.  Every generated if is accepted by the parser.        *)
(***************************************************************************)
C11_FalseBranchIsElseStatements ==
    \A c \in {0, 1}, nTrue \in BranchCounts, hasElse \in BOOLEAN, nFalse \in BranchCounts :
       LET expected == If(Number(c), Outputs(1, nTrue),
                          IF hasElse THEN Outputs(0, nFalse) ELSE <<>>)
       IN  /\ (source = IfElseProgram(c, nTrue, hasElse, nFalse) /\ status # "start")
                => (ParsedOk /\ ast = Program(<<expected>>))
           /\ (source = NestedIfProgram(c, nTrue, hasElse, nFalse) /\ status # "start")
                => (ParsedOk
                      /\ ast = Program(<<If(Number(1), <<expected>>, <<>>)>>))

C11_Witness ==
    /\ source = "if 0 then output 1 else endif"
    /\ status = "done"
    /\ ast.statements[1].false_branch = <<>>
    /\ output = <<>>

====
